---------------------------- MODULE Spec2Model ----------------------------
(***************************************************************************)
(* Model of the secret-store key-server cluster: the consensus state       *)
(* machine (secret_store/src/key_server_cluster/consensus.rs) and the      *)
(* connection registry of the cluster transport (cluster.rs).              *)
(*                                                                         *)
(* A Consensus<T> value is a record tagged by `kind`; every Rust method is *)
(* an operator of the same name that maps (self, arguments) to the new     *)
(* value of *self and the method's result.  One action per public method   *)
(* applies the operator to the variable `consensus`.  Spec is the          *)
(* specification of the consensus engine; SpecCluster and SpecCrossDial    *)
(* are those of the connection registries of the cluster's nodes, SpecMesh *)
(* that of the mesh forming under fair scheduling.  SpecMaintain and       *)
(* SpecLoss are the maintenance ticks of a cluster whose links are         *)
(* established, SpecSession and SpecSessionFair its handling of encryption *)
(* messages, SpecView the use of the sessions' cluster views.              *)
(***************************************************************************)
EXTENDS Integers, FiniteSets, Sequences, TLC

\* Bounds of the model.
MaxNodes == 3
MaxThreshold == 1
\* Connections dialed in one run of the cluster.
MaxDials == 2
\* Dials of one node to one peer after its first.
MaxRedials == 0
\* Encryption session ids in use.
MaxSessions == 1
\* Messages sent by the sessions of the peers in one run.
MaxMessages == 2
\* keep_alive: a connection silent for longer is removed.
DeadSeconds == 60
\* keep_alive: a connection silent for longer is sent a KeepAlive.
IdleSeconds == 30

\* NodeId is totally ordered: node ids are 1..MaxNodes.
NodeId == 1..MaxNodes
SessionId == 1..MaxSessions
\* Values of `threshold: usize` explored by the model.
Thresholds == 0..MaxThreshold
\* The response payload type T of Consensus<T>.
T == {"r1", "r2"}

VARIABLES
    consensus,  \* the Consensus<T> value (*self), or NoConsensus before `new` succeeded
    nominated,  \* the `nodes` argument of the `new` call that built `consensus`
    prev,       \* the value of *self when the last call was made
    last        \* the last call made: method, arguments and returned value

consensus_vars == <<consensus, nominated, prev, last>>

VARIABLES
    connections,  \* per node: ClusterConnections.connections, the registry
    results,      \* handshake results not yet given to process_connection_result
    readers,      \* the read loops (process_connection_messages) that are running
    dialed,       \* the links dialed so far
    reg_prev,     \* the registry the last insert or remove was called on
    reg_last      \* the last insert or remove: node, arguments and result

registry_vars == <<connections, results, readers, dialed, reg_prev, reg_last>>

VARIABLES
    last_message_time,    \* per registered connection: seconds since last_message_time
    encryption_sessions,  \* per node: ClusterSessions.encryption_sessions
    unnotified,           \* <<node, peer>>: the connection was lost to a read error and
                          \* no on_session_timeout(peer) was delivered at node since
    tick_last             \* the last keep_alive: what it found and what it did

maintain_vars == <<last_message_time, encryption_sessions, unnotified, tick_last>>

VARIABLES
    arcs,      \* per node: the EncryptionSession objects alive, and their state()
    wire,      \* per connection end: the SessionError messages sent to it, unread
    workers,   \* the KeysDissemination messages whose handling is under way
    timers,    \* per node and session object: the key generation timers armed
    injected,  \* the number of messages the peers' sessions have sent so far
    msg_last   \* the last message handled: where, which, and what came of it

session_vars == <<arcs, wire, workers, timers, injected, msg_last>>

VARIABLES
    view_last  \* the last broadcast or send of a ClusterView: the call and
               \* its result

view_vars == <<view_last>>

cluster_vars == <<registry_vars, maintain_vars, session_vars, view_vars>>

vars == <<consensus_vars, cluster_vars>>

-----------------------------------------------------------------------------
\* The variants of enum Consensus<T>, and the structs they carry.

NoConsensus == [kind |-> "None"]

ConsensusCore(threshold, requested, rejected, confirmed) ==
    [threshold |-> threshold,
     requested_nodes |-> requested,
     rejected_nodes |-> rejected,
     confirmed_nodes |-> confirmed]

Establishing(core) == [kind |-> "Establishing", core |-> core]
Established(core) == [kind |-> "Established", core |-> core]
Active(active) == [kind |-> "Active", active |-> active]
Completed(active) == [kind |-> "Completed", active |-> active]
Unreachable == [kind |-> "Unreachable"]

\* BTreeMap<NodeId, T>: a function whose domain is the set of keys.
EmptyMap == [n \in {} |-> "r1"]
MapInsert(m, k, v) == [n \in (DOMAIN m) \cup {k} |-> IF n = k THEN v ELSE m[n]]
MapRemove(m, k) == [n \in (DOMAIN m) \ {k} |-> m[n]]

\* What a call returns together with the value it leaves in *self.
Ret(self, res) == [self |-> self, res |-> res]

\* The core of a value that carries one (ConsensusCore or ActiveConsensus.core).
CoreOf(c) ==
    IF c.kind \in {"Establishing", "Established"} THEN c.core ELSE c.active.core

HasCore(c) == c.kind \in {"Establishing", "Established", "Active", "Completed"}

\* requested_nodes.len() + confirmed_nodes.len() >= threshold + 1
IsReachable(core) ==
    Cardinality(core.requested_nodes) + Cardinality(core.confirmed_nodes)
        >= core.threshold + 1

-----------------------------------------------------------------------------
\* impl ConsensusCore

ConsensusCore_accept_offer(core, node) ==
    IF node \notin core.requested_nodes
    THEN [core |-> core, res |-> "InvalidStateForRequest"]
    ELSE [core |-> [core EXCEPT !.requested_nodes = @ \ {node},
                                !.confirmed_nodes = @ \cup {node}],
          res |-> "Ok"]

ConsensusCore_reject_offer(core, node) ==
    IF node \notin core.requested_nodes
    THEN [core |-> core, res |-> "InvalidStateForRequest"]
    ELSE [core |-> [core EXCEPT !.requested_nodes = @ \ {node},
                                !.rejected_nodes = @ \cup {node}],
          res |-> "Ok"]

\* Mutant: the timed-out node is removed but never recorded as rejected.
ConsensusCore_node_timeouted_Drops(core, node) ==
    [core |-> [core EXCEPT !.requested_nodes = @ \ {node},
                           !.confirmed_nodes = @ \ {node}],
     res |-> "Ok"]

\* `requested.remove(node) || confirmed.remove(node)` short-circuits: the node
\* leaves confirmed only when it was not in requested.
ConsensusCore_node_timeouted(core, node) ==
    IF node \in core.requested_nodes
    THEN [core |-> [core EXCEPT !.requested_nodes = @ \ {node},
                                !.rejected_nodes = @ \cup {node}],
          res |-> "Ok"]
    ELSE IF node \in core.confirmed_nodes
    THEN [core |-> [core EXCEPT !.confirmed_nodes = @ \ {node},
                                !.rejected_nodes = @ \cup {node}],
          res |-> "Ok"]
    ELSE [core |-> core, res |-> "Ok"]

-----------------------------------------------------------------------------
\* impl Consensus<T>

\* Mutant: the nomination is compared with threshold instead of threshold + 1.
Consensus_new_OffByOne(threshold, nodes) ==
    IF Cardinality(nodes) < threshold
    THEN Ret(NoConsensus, "InvalidThreshold")
    ELSE Ret(Establishing(ConsensusCore(threshold, nodes, {}, {})), "Ok")

Consensus_new(threshold, nodes) ==
    IF Cardinality(nodes) < threshold + 1
    THEN Ret(NoConsensus, "InvalidThreshold")
    ELSE Ret(Establishing(ConsensusCore(threshold, nodes, {}, {})), "Ok")

\* Mutant: Establishing is left as soon as `threshold` nodes have confirmed.
Consensus_accept_offer_OffByOne(self, node) ==
    CASE self.kind = "Establishing" ->
            LET r == ConsensusCore_accept_offer(self.core, node) IN
            IF r.res # "Ok" THEN Ret(Establishing(r.core), r.res)
            ELSE IF Cardinality(r.core.confirmed_nodes) # r.core.threshold
            THEN Ret(Establishing(r.core), "Ok")
            ELSE Ret(Established(r.core), "Ok")
      [] self.kind = "Established" ->
            LET r == ConsensusCore_accept_offer(self.core, node) IN
            Ret(Established(r.core), r.res)
      [] self.kind \in {"Active", "Completed"} ->
            LET r == ConsensusCore_accept_offer(self.active.core, node) IN
            Ret([self EXCEPT !.active.core = r.core], r.res)
      [] OTHER -> Ret(self, "InvalidStateForRequest")

Consensus_accept_offer(self, node) ==
    CASE self.kind = "Establishing" ->
            LET r == ConsensusCore_accept_offer(self.core, node) IN
            IF r.res # "Ok" THEN Ret(Establishing(r.core), r.res)
            ELSE IF Cardinality(r.core.confirmed_nodes) # r.core.threshold + 1
            THEN Ret(Establishing(r.core), "Ok")
            ELSE Ret(Established(r.core), "Ok")
      [] self.kind = "Established" ->
            LET r == ConsensusCore_accept_offer(self.core, node) IN
            Ret(Established(r.core), r.res)
      [] self.kind \in {"Active", "Completed"} ->
            LET r == ConsensusCore_accept_offer(self.active.core, node) IN
            Ret([self EXCEPT !.active.core = r.core], r.res)
      [] OTHER -> Ret(self, "InvalidStateForRequest")

Consensus_is_established(self) == self.kind \in {"Established", "Active"}

\* Mutant: the catch-all arm falls through to the Unreachable assignment.
Consensus_reject_offer_FallsThrough(self, node) ==
    CASE self.kind = "Establishing" ->
            LET r == ConsensusCore_reject_offer(self.core, node) IN
            IF r.res # "Ok" THEN Ret(Establishing(r.core), r.res)
            ELSE IF IsReachable(r.core) THEN Ret(Establishing(r.core), "Ok")
            ELSE Ret(Unreachable, "ConsensusUnreachable")
      [] self.kind = "Established" ->
            LET r == ConsensusCore_reject_offer(self.core, node) IN
            Ret(Established(r.core), r.res)
      [] self.kind \in {"Active", "Completed"} ->
            LET r == ConsensusCore_reject_offer(self.active.core, node) IN
            Ret([self EXCEPT !.active.core = r.core], r.res)
      [] OTHER -> Ret(Unreachable, "ConsensusUnreachable")

Consensus_reject_offer(self, node) ==
    CASE self.kind = "Establishing" ->
            LET r == ConsensusCore_reject_offer(self.core, node) IN
            IF r.res # "Ok" THEN Ret(Establishing(r.core), r.res)
            ELSE IF IsReachable(r.core) THEN Ret(Establishing(r.core), "Ok")
            ELSE Ret(Unreachable, "ConsensusUnreachable")
      [] self.kind = "Established" ->
            LET r == ConsensusCore_reject_offer(self.core, node) IN
            Ret(Established(r.core), r.res)
      [] self.kind \in {"Active", "Completed"} ->
            LET r == ConsensusCore_reject_offer(self.active.core, node) IN
            Ret([self EXCEPT !.active.core = r.core], r.res)
      [] OTHER -> Ret(self, "InvalidStateForRequest")

-----------------------------------------------------------------------------
\* impl ActiveConsensus<T>

ActiveConsensus_new(core) ==
    [core |-> core,
     selected_nodes |-> {},
     active_requests |-> {},
     responses |-> EmptyMap]

\* iter().take(n) over a BTreeSet: its n smallest members, in ascending order.
RECURSIVE Take(_, _)
Take(S, n) ==
    IF n = 0 \/ S = {} THEN {}
    ELSE LET m == CHOOSE x \in S : \A y \in S : x <= y
         IN {m} \cup Take(S \ {m}, n - 1)

ActiveConsensus_select_nodes(active) ==
    IF active.selected_nodes # {}
    THEN [active |-> active, res |-> "InvalidStateForRequest"]
    ELSE [active |-> [active EXCEPT !.selected_nodes =
                          Take(active.core.confirmed_nodes, active.core.threshold + 1)],
          res |-> "Ok"]

ActiveConsensus_selected_nodes(active) ==
    IF active.selected_nodes = {}
    THEN [active |-> active, res |-> "InvalidStateForRequest"]
    ELSE [active |-> active, res |-> "Ok"]

\* Mutant: a request may be sent to a confirmed node that was not selected.
ActiveConsensus_job_request_sent_Unselected(active, node) ==
    IF node \notin active.core.confirmed_nodes
    THEN [active |-> active, res |-> "InvalidNodeForRequest"]
    ELSE IF node \in active.active_requests
    THEN [active |-> active, res |-> "InvalidNodeForRequest"]
    ELSE [active |-> [active EXCEPT !.active_requests = @ \cup {node}],
          res |-> "Ok"]

ActiveConsensus_job_request_sent(active, node) ==
    IF node \notin active.core.confirmed_nodes
    THEN [active |-> active, res |-> "InvalidNodeForRequest"]
    ELSE IF node \notin active.selected_nodes
    THEN [active |-> active, res |-> "InvalidNodeForRequest"]
    ELSE IF node \in active.active_requests
    THEN [active |-> active, res |-> "InvalidNodeForRequest"]
    ELSE [active |-> [active EXCEPT !.active_requests = @ \cup {node}],
          res |-> "Ok"]

\* Mutant: the request stays in flight after its response was recorded.
ActiveConsensus_job_response_received_StaysInFlight(active, node, response) ==
    IF node \notin active.active_requests
    THEN [active |-> active, res |-> "InvalidStateForRequest"]
    ELSE [active |-> [active EXCEPT !.responses = MapInsert(@, node, response)],
          res |-> "Ok"]

ActiveConsensus_job_response_received(active, node, response) ==
    IF node \notin active.active_requests
    THEN [active |-> active, res |-> "InvalidStateForRequest"]
    ELSE [active |-> [active EXCEPT !.active_requests = @ \ {node},
                                    !.responses = MapInsert(@, node, response)],
          res |-> "Ok"]

\* Mutant: a restart forgets the responses already received.
ActiveConsensus_restart_KeepsResponses(active) ==
    [active |-> [active EXCEPT !.selected_nodes = {},
                               !.active_requests = {}],
     res |-> "Ok"]

ActiveConsensus_restart(active) ==
    [active |-> [active EXCEPT !.selected_nodes = {},
                               !.active_requests = {},
                               !.responses = EmptyMap],
     res |-> "Ok"]

\* Mutant: only a request in flight, not a recorded response, asks for a restart.
ActiveConsensus_node_timeouted_IgnoresResponses(active, node) ==
    LET c == ConsensusCore_node_timeouted(active.core, node).core IN
    IF node \in active.active_requests
    THEN [active |-> [active EXCEPT !.core = c, !.active_requests = @ \ {node}],
          res |-> TRUE]
    ELSE [active |-> [active EXCEPT !.core = c], res |-> FALSE]

\* `active_requests.remove(node) || responses.remove(node).is_some()`
\* short-circuits: a response is removed only when no request was in flight.
\* `res` is the bool of Ok(bool).
ActiveConsensus_node_timeouted(active, node) ==
    LET c == ConsensusCore_node_timeouted(active.core, node).core IN
    IF node \in active.active_requests
    THEN [active |-> [active EXCEPT !.core = c, !.active_requests = @ \ {node}],
          res |-> TRUE]
    ELSE IF node \in DOMAIN active.responses
    THEN [active |-> [active EXCEPT !.core = c,
                                    !.responses = MapRemove(@, node)],
          res |-> TRUE]
    ELSE [active |-> [active EXCEPT !.core = c], res |-> FALSE]

\* for timeouted_node in &self.active_requests { core.node_timeouted(..)? }
RECURSIVE TimeoutEach(_, _)
TimeoutEach(core, nodes) ==
    IF nodes = {} THEN core
    ELSE LET m == CHOOSE x \in nodes : \A y \in nodes : x <= y
         IN TimeoutEach(ConsensusCore_node_timeouted(core, m).core, nodes \ {m})

ActiveConsensus_session_timeouted(active) ==
    ActiveConsensus_restart(
        [active EXCEPT !.core = TimeoutEach(active.core, active.active_requests)])

-----------------------------------------------------------------------------
\* impl Consensus<T>, continued: the methods that use ActiveConsensus<T>.

\* Mutant: an Active consensus cannot be activated again.
Consensus_activate_NoRestart(self) ==
    CASE self.kind = "Established" ->
            Ret(Active(ActiveConsensus_new(self.core)), "Ok")
      [] OTHER -> Ret(self, "InvalidStateForRequest")

Consensus_activate(self) ==
    CASE self.kind = "Established" ->
            Ret(Active(ActiveConsensus_new(self.core)), "Ok")
      [] self.kind = "Active" ->
            Ret(Active(ActiveConsensus_new(self.active.core)), "Ok")
      [] OTHER -> Ret(self, "InvalidStateForRequest")

Consensus_select_nodes(self) ==
    IF self.kind = "Active"
    THEN LET r == ActiveConsensus_select_nodes(self.active) IN
         Ret(Active(r.active), r.res)
    ELSE Ret(self, "InvalidStateForRequest")

Consensus_selected_nodes(self) ==
    IF self.kind = "Active"
    THEN LET r == ActiveConsensus_selected_nodes(self.active) IN
         Ret(Active(r.active), r.res)
    ELSE Ret(self, "InvalidStateForRequest")

Consensus_job_request_sent(self, node) ==
    IF self.kind = "Active"
    THEN LET r == ActiveConsensus_job_request_sent(self.active, node) IN
         Ret(Active(r.active), r.res)
    ELSE Ret(self, "InvalidStateForRequest")

Consensus_job_response_received(self, node, response) ==
    IF self.kind \in {"Active", "Completed"}
    THEN LET r == ActiveConsensus_job_response_received(self.active, node, response) IN
         Ret([self EXCEPT !.active = r.active], r.res)
    ELSE Ret(self, "InvalidStateForRequest")

\* Mutant: Established handles a timeout as it handles a rejection, without
\* the viability check.
Consensus_node_timeouted_NoCheck(self, node) ==
    CASE self.kind = "Establishing" ->
            LET r == ConsensusCore_node_timeouted(self.core, node) IN
            IF IsReachable(r.core) THEN Ret(Establishing(r.core), "Ok(false)")
            ELSE Ret(Unreachable, "ConsensusUnreachable")
      [] self.kind = "Established" ->
            LET r == ConsensusCore_node_timeouted(self.core, node) IN
            Ret(Established(r.core), "Ok(false)")
      [] self.kind = "Active" ->
            LET r == ActiveConsensus_node_timeouted(self.active, node)
                is_restart_required == r.res
                is_consensus_reachable == IsReachable(r.active.core)
            IN
            IF is_consensus_reachable
            THEN IF ~is_restart_required THEN Ret(Active(r.active), "Ok(false)")
                 ELSE Ret(Active(ActiveConsensus_restart(r.active).active), "Ok(true)")
            ELSE Ret(Unreachable, "ConsensusUnreachable")
      [] self.kind = "Completed" -> Ret(self, "Ok(false)")
      [] OTHER -> Ret(self, "InvalidStateForRequest")

Consensus_node_timeouted(self, node) ==
    CASE self.kind = "Establishing" ->
            LET r == ConsensusCore_node_timeouted(self.core, node) IN
            IF IsReachable(r.core) THEN Ret(Establishing(r.core), "Ok(false)")
            ELSE Ret(Unreachable, "ConsensusUnreachable")
      [] self.kind = "Established" ->
            LET r == ConsensusCore_node_timeouted(self.core, node) IN
            IF IsReachable(r.core) THEN Ret(Established(r.core), "Ok(false)")
            ELSE Ret(Unreachable, "ConsensusUnreachable")
      [] self.kind = "Active" ->
            LET r == ActiveConsensus_node_timeouted(self.active, node)
                is_restart_required == r.res
                is_consensus_reachable == IsReachable(r.active.core)
            IN
            IF is_consensus_reachable
            THEN IF ~is_restart_required THEN Ret(Active(r.active), "Ok(false)")
                 ELSE Ret(Active(ActiveConsensus_restart(r.active).active), "Ok(true)")
            ELSE Ret(Unreachable, "ConsensusUnreachable")
      [] self.kind = "Completed" -> Ret(self, "Ok(false)")
      [] OTHER -> Ret(self, "InvalidStateForRequest")

\* Mutant: Establishing and Established go through the viability check.
Consensus_session_timeouted_Checks(self) ==
    CASE self.kind \in {"Establishing", "Established"} ->
            IF IsReachable(self.core) THEN Ret(self, "Ok")
            ELSE Ret(Unreachable, "ConsensusUnreachable")
      [] self.kind = "Active" ->
            LET r == ActiveConsensus_session_timeouted(self.active) IN
            IF IsReachable(r.active.core) THEN Ret(Active(r.active), "Ok")
            ELSE Ret(Unreachable, "ConsensusUnreachable")
      [] self.kind = "Completed" -> Ret(self, "Ok")
      [] OTHER -> Ret(self, "ConsensusUnreachable")

Consensus_session_timeouted(self) ==
    CASE self.kind \in {"Establishing", "Established"} ->
            Ret(Unreachable, "ConsensusUnreachable")
      [] self.kind = "Active" ->
            LET r == ActiveConsensus_session_timeouted(self.active) IN
            IF IsReachable(r.active.core) THEN Ret(Active(r.active), "Ok")
            ELSE Ret(Unreachable, "ConsensusUnreachable")
      [] self.kind = "Completed" -> Ret(self, "Ok")
      [] OTHER -> Ret(self, "ConsensusUnreachable")

-----------------------------------------------------------------------------
\* The calls a client makes on the consensus.  `last` records the call and
\* what it returned.

\* Placeholders for the arguments a method does not take.
NoNode == MaxNodes + 1
NoResponse == "none"

Call(op, node, response, res) ==
    [op |-> op, node |-> node, response |-> response, res |-> res]

ConsensusInit ==
    /\ consensus = NoConsensus
    /\ prev = NoConsensus
    /\ nominated = {}
    /\ last = Call("none", NoNode, NoResponse, "none")

\* A method of an existing Consensus value is called.
Exists == consensus.kind # "None"

New ==
    /\ ~Exists
    /\ \E threshold \in Thresholds, nodes \in SUBSET NodeId :
        LET r == Consensus_new(threshold, nodes) IN
        /\ consensus' = r.self
        /\ prev' = consensus
        /\ UNCHANGED cluster_vars
        /\ nominated' = IF r.res = "Ok" THEN nodes ELSE nominated
        /\ last' = [op |-> "new", node |-> NoNode, response |-> NoResponse,
                    res |-> r.res, threshold |-> threshold, nodes |-> nodes]

AcceptOffer ==
    /\ Exists
    /\ \E node \in NodeId :
        LET r == Consensus_accept_offer(consensus, node) IN
        /\ consensus' = r.self
        /\ prev' = consensus
        /\ UNCHANGED cluster_vars
        /\ last' = Call("accept_offer", node, NoResponse, r.res)
        /\ UNCHANGED nominated

RejectOffer ==
    /\ Exists
    /\ \E node \in NodeId :
        LET r == Consensus_reject_offer(consensus, node) IN
        /\ consensus' = r.self
        /\ prev' = consensus
        /\ UNCHANGED cluster_vars
        /\ last' = Call("reject_offer", node, NoResponse, r.res)
        /\ UNCHANGED nominated

Activate ==
    /\ Exists
    /\ LET r == Consensus_activate(consensus) IN
        /\ consensus' = r.self
        /\ prev' = consensus
        /\ UNCHANGED cluster_vars
        /\ last' = Call("activate", NoNode, NoResponse, r.res)
        /\ UNCHANGED nominated

SelectNodes ==
    /\ Exists
    /\ LET r == Consensus_select_nodes(consensus) IN
        /\ consensus' = r.self
        /\ prev' = consensus
        /\ UNCHANGED cluster_vars
        /\ last' = Call("select_nodes", NoNode, NoResponse, r.res)
        /\ UNCHANGED nominated

SelectedNodes ==
    /\ Exists
    /\ LET r == Consensus_selected_nodes(consensus) IN
        /\ consensus' = r.self
        /\ prev' = consensus
        /\ UNCHANGED cluster_vars
        /\ last' = Call("selected_nodes", NoNode, NoResponse, r.res)
        /\ UNCHANGED nominated

JobRequestSent ==
    /\ Exists
    /\ \E node \in NodeId :
        LET r == Consensus_job_request_sent(consensus, node) IN
        /\ consensus' = r.self
        /\ prev' = consensus
        /\ UNCHANGED cluster_vars
        /\ last' = Call("job_request_sent", node, NoResponse, r.res)
        /\ UNCHANGED nominated

JobResponseReceived ==
    /\ Exists
    /\ \E node \in NodeId, response \in T :
        LET r == Consensus_job_response_received(consensus, node, response) IN
        /\ consensus' = r.self
        /\ prev' = consensus
        /\ UNCHANGED cluster_vars
        /\ last' = Call("job_response_received", node, response, r.res)
        /\ UNCHANGED nominated

NodeTimeouted ==
    /\ Exists
    /\ \E node \in NodeId :
        LET r == Consensus_node_timeouted(consensus, node) IN
        /\ consensus' = r.self
        /\ prev' = consensus
        /\ UNCHANGED cluster_vars
        /\ last' = Call("node_timeouted", node, NoResponse, r.res)
        /\ UNCHANGED nominated

SessionTimeouted ==
    /\ Exists
    /\ LET r == Consensus_session_timeouted(consensus) IN
        /\ consensus' = r.self
        /\ prev' = consensus
        /\ UNCHANGED cluster_vars
        /\ last' = Call("session_timeouted", NoNode, NoResponse, r.res)
        /\ UNCHANGED nominated

-----------------------------------------------------------------------------
\* cluster.rs: the connection registries of the cluster's nodes.  The nodes
\* of the cluster are the NodeIds; node n's roster is NodeId \ {n}.

\* A TCP link, named by its serial number, its dialer and its acceptor.
Link(id, from, to) == [id |-> id, from |-> from, to |-> to]

\* struct Connection: the peer, the direction, and the stream (the link this
\* connection is an end of).
Connection(node_id, is_inbound, link) ==
    [node_id |-> node_id, is_inbound |-> is_inbound, link |-> link]

\* BTreeMap<NodeId, Arc<Connection>>: the set of its values, each stored under
\* the key connection.node_id.
ContainsKey(map, node) == \E c \in map : c.node_id = node
Get(map, node) == CHOOSE c \in map : c.node_id = node
RemoveKey(map, node) == {c \in map : c.node_id # node}
InsertKey(map, connection) == RemoveKey(map, connection.node_id) \cup {connection}

\* Mutant: no tie-break, the connection presented last displaces the stored one.
ClusterConnections_insert_AlwaysReplaces(self_node_id, map, connection) ==
    [connections |-> InsertKey(map, connection), res |-> TRUE]

\* Mutant: the agreement on who initiates is read the wrong way round.
ClusterConnections_insert_Inverted(self_node_id, map, connection) ==
    IF /\ ContainsKey(map, connection.node_id)
       /\ \/ self_node_id > connection.node_id /\ connection.is_inbound
          \/ self_node_id < connection.node_id /\ ~connection.is_inbound
    THEN [connections |-> map, res |-> FALSE]
    ELSE [connections |-> InsertKey(map, connection), res |-> TRUE]

ClusterConnections_insert(self_node_id, map, connection) ==
    IF /\ ContainsKey(map, connection.node_id)
       /\ \/ self_node_id < connection.node_id /\ connection.is_inbound
          \/ self_node_id > connection.node_id /\ ~connection.is_inbound
    THEN [connections |-> map, res |-> FALSE]
    ELSE [connections |-> InsertKey(map, connection), res |-> TRUE]

\* Mutant: the stored connection is removed whatever its direction.
ClusterConnections_remove_AnyDirection(map, node, is_inbound) ==
    RemoveKey(map, node)

ClusterConnections_remove(map, node, is_inbound) ==
    IF ContainsKey(map, node)
    THEN IF Get(map, node).is_inbound # is_inbound
         THEN map
         ELSE RemoveKey(map, node)
    ELSE map

\* Mutant: the filter keeps the nodes that are connected.
ClusterConnections_disconnected_nodes_Connected(self_node_id, map) ==
    {n \in NodeId \ {self_node_id} : ContainsKey(map, n)}

ClusterConnections_disconnected_nodes(self_node_id, map) ==
    {n \in NodeId \ {self_node_id} : ~ContainsKey(map, n)}

\* An end of a link lives as long as a handshake result, the registry or a
\* read loop of its node holds it; dropping the last Arc closes the stream.
Held(node, link) ==
    \/ \E r \in results \cup readers : r.at = node /\ r.conn.link = link
    \/ \E c \in connections[node] : c.link = link

\* The peer's end of the connection read by r is closed: read_message fails.
PeerClosed(r) == ~Held(r.conn.node_id, r.conn.link)

RegistryCall(op, at, node_id, is_inbound, link, res) ==
    [op |-> op, at |-> at, node_id |-> node_id, is_inbound |-> is_inbound,
     link |-> link, res |-> res]

NoLink == Link(0, NoNode, NoNode)

\* The end at node `at` of the connection made on `link`.
End(at, link) == [at |-> at, link |-> link]

\* last_message_time is read by keep_alive only, and of the connections in the
\* registry only: the map is kept for those, `registry` being the registry of
\* node n after the step and `fresh` the connections made by the step.
Registered(times, n, registry, fresh) ==
    [e \in {End(n, c.link) : c \in registry} \cup {e \in DOMAIN times : e.at # n} |->
        IF e \in DOMAIN times /\ e.link \notin {c.link : c \in fresh}
        THEN times[e] ELSE 0]

\* The state of a session, as far as state() tells: KeyCheck, a state before
\* it ("Other") or the key generation that follows it ("Started").
SessionState == {"Other", "KeyCheck", "Started"}

\* An entry of encryption_sessions: the Arc of the session object, and the
\* frozen node set of the ClusterView the session was made with.
EncryptionSession(arc, nodes) == [arc |-> arc, nodes |-> nodes]

\* The session objects of node n that an Arc still points to: those in the
\* registry `sessions`, those held by the handlers `ws` under way and those
\* held by the armed timers `ts`.
Held_arcs(n, sessions, ws, ts) ==
    {sessions[s].arc : s \in DOMAIN sessions}
    \cup {w.arc : w \in {w \in ws : w.reader.at = n}}
    \cup DOMAIN ts

\* Dropping the last Arc frees the session object.
Alive(states, held) == [k \in DOMAIN states \cap held |-> states[k]]

\* Arc::new: an object that is not one of those alive.
NewArc(states) ==
    CHOOSE k \in 1..(Cardinality(DOMAIN states) + 1) :
        k \notin DOMAIN states /\ \A j \in 1..(k - 1) : j \in DOMAIN states

NoArc == 0

\* What a keep_alive at node `at` did: the connections a KeepAlive was sent
\* on and the on_session_timeout(peer) calls made, as <<session, peer>>; `odd`
\* tells a tick from the one before it.
Tick(at, odd, keepalives, timeouts) ==
    [at |-> at, odd |-> odd, keepalives |-> keepalives, timeouts |-> timeouts]

\* A message handled by process_connection_message at node `at`, read from
\* `link`: its kind and session id, the result of its handler, the messages
\* sent in reply, and for a KeysDissemination whether its delivery brought the
\* session into KeyCheck and whether a key generation timer was scheduled;
\* `odd` tells a message from the one handled before it.
Handled(at, link, kind, session, res, replies, entered, scheduled) ==
    [at |-> at, link |-> link, kind |-> kind, session |-> session, res |-> res,
     replies |-> replies, entered |-> entered, scheduled |-> scheduled,
     odd |-> ~msg_last.odd]

\* A call of ClusterView::broadcast or send by the session `session` of node
\* `at`: the node sent to (NoNode for a broadcast), the result, and the
\* connections send_message was spawned on; `odd` tells a call from the one
\* before it.
ViewCall(op, at, session, to, res, sent, odd) ==
    [op |-> op, at |-> at, session |-> session, to |-> to, res |-> res,
     sent |-> sent, odd |-> odd]

NoViewCall == ViewCall("none", NoNode, 0, NoNode, "none", {}, FALSE)

NoMessage ==
    [at |-> NoNode, link |-> NoLink, kind |-> "none", session |-> 0, res |-> "none",
     replies |-> <<>>, entered |-> FALSE, scheduled |-> FALSE, odd |-> FALSE]

ClusterInit ==
    /\ connections = [n \in NodeId |-> {}]
    /\ results = {}
    /\ readers = {}
    /\ dialed = {}
    /\ reg_prev = {}
    /\ reg_last = RegistryCall("none", NoNode, NoNode, FALSE, NoLink, FALSE)
    /\ last_message_time = EmptyMap
    /\ encryption_sessions = [n \in NodeId |-> EmptyMap]
    /\ unnotified = {}
    /\ tick_last = Tick(NoNode, FALSE, {}, {})
    /\ arcs = [n \in NodeId |-> EmptyMap]
    /\ wire = EmptyMap
    /\ workers = {}
    /\ timers = [n \in NodeId |-> EmptyMap]
    /\ injected = 0
    /\ msg_last = NoMessage
    /\ view_last = NoViewCall

\* connect_disconnected_nodes at node a dials the disconnected peer b; the
\* handshake succeeds at both ends (net_connect at a, net_accept_connection
\* at b), and each end's result waits for process_connection_result.
Connect ==
    /\ Cardinality(dialed) < MaxDials
    /\ \E a \in NodeId :
       \E b \in ClusterConnections_disconnected_nodes(a, connections[a]) :
        LET link == Link(Cardinality(dialed) + 1, a, b) IN
        /\ dialed' = dialed \cup {link}
        /\ results' = results \cup {[at |-> a, conn |-> Connection(b, FALSE, link)],
                                    [at |-> b, conn |-> Connection(a, TRUE, link)]}
        /\ UNCHANGED <<connections, readers, reg_prev, reg_last>>
        /\ UNCHANGED <<consensus_vars, view_vars, maintain_vars, session_vars>>

\* connect_disconnected_nodes at node a, called by run and by every
\* maintenance tick: the disconnected peer b is dialed, unless a handshake of
\* a with b is still under way or a has redialed b MaxRedials times, and the
\* handshake succeeds at both ends.  The links of a to b are numbered in the
\* order they are dialed.
Dial(a) ==
    \E b \in ClusterConnections_disconnected_nodes(a, connections[a]) :
        LET link == Link(Cardinality({l \in dialed : l.from = a /\ l.to = b}) + 1, a, b) IN
        /\ ~\E r \in results : r.at = a /\ r.conn.node_id = b /\ ~r.conn.is_inbound
        /\ link.id <= MaxRedials + 1
        /\ dialed' = dialed \cup {link}
        /\ results' = results \cup {[at |-> a, conn |-> Connection(b, FALSE, link)],
                                    [at |-> b, conn |-> Connection(a, TRUE, link)]}
        /\ UNCHANGED <<connections, readers, reg_prev, reg_last>>
        /\ UNCHANGED <<consensus_vars, view_vars, maintain_vars, session_vars>>

ProcessConnectionResult ==
    \E r \in results :
        LET i == ClusterConnections_insert(r.at, connections[r.at], r.conn) IN
        /\ connections' = [connections EXCEPT ![r.at] = i.connections]
        /\ results' = results \ {r}
        /\ readers' = IF i.res THEN readers \cup {r} ELSE readers
        /\ reg_prev' = connections[r.at]
        /\ reg_last' = RegistryCall("insert", r.at, r.conn.node_id, r.conn.is_inbound,
                                    r.conn.link, i.res)
        \* Connection::new: last_message_time is the time of creation
        /\ last_message_time' =
               Registered(last_message_time, r.at, i.connections,
                          IF i.res THEN {r.conn} ELSE {})
        /\ UNCHANGED dialed
        /\ UNCHANGED <<consensus_vars, view_vars, encryption_sessions, unnotified, tick_last, session_vars>>

\* process_connection_result, the other arms: the handshake at this end
\* failed or timed out after the link was made, and the end is dropped.
ConnectionFailed ==
    \E r \in results :
        /\ results' = results \ {r}
        /\ UNCHANGED <<connections, readers, dialed, reg_prev, reg_last>>
        /\ UNCHANGED <<consensus_vars, view_vars, maintain_vars, session_vars>>

\* process_connection_messages, Err(err): the read loop of r removes the
\* connection of its peer and direction from the registry and ends.
ReadLoopFails(r) ==
    /\ connections' = [connections EXCEPT ![r.at] =
           ClusterConnections_remove(@, r.conn.node_id, r.conn.is_inbound)]
    /\ readers' = readers \ {r}
    /\ reg_prev' = connections[r.at]
    /\ reg_last' = RegistryCall("remove", r.at, r.conn.node_id, r.conn.is_inbound,
                                r.conn.link, TRUE)
    /\ last_message_time' = Registered(last_message_time, r.at, connections'[r.at], {})
    /\ unnotified' =
           IF /\ connections'[r.at] # connections[r.at]
              /\ DOMAIN encryption_sessions[r.at] # {}
           THEN unnotified \cup {<<r.at, r.conn.node_id>>}
           ELSE unnotified
    /\ UNCHANGED <<results, dialed>>
    /\ UNCHANGED <<consensus_vars, view_vars, encryption_sessions, tick_last, session_vars>>

\* The peer has dropped its end of the link.
ReadClosed == \E r \in readers : PeerClosed(r) /\ ReadLoopFails(r)

\* The network fails under a link both ends of which are alive.
NetworkError == \E r \in readers : ~PeerClosed(r) /\ ReadLoopFails(r)

\* Seconds of silence of the connection c held at node n.
Silence(silence, n, c) == silence[End(n, c.link)]

\* ClusterSessions::on_connection_timeout: the on_session_timeout(node_id)
\* calls made, one per registered encryption session.
ClusterSessions_on_connection_timeout(sessions, node_id) ==
    {<<s, node_id>> : s \in DOMAIN sessions}

\* keep_alive's loop over the snapshot active_connections(): `todo` is what is
\* left of the snapshot, `acc` the registry and what was done so far.
RECURSIVE KeepAliveEach(_, _, _, _, _)
\* Mutant: a connection silent for exactly the dead threshold is removed.
KeepAliveEach_AtThreshold(n, todo, silence, sessions, acc) ==
    IF todo = {} THEN acc
    ELSE LET connection == CHOOSE c \in todo : \A d \in todo : c.node_id <= d.node_id
             last_message_diff == Silence(silence, n, connection)
             rest == todo \ {connection}
         IN  IF last_message_diff >= DeadSeconds
             THEN KeepAliveEach(n, rest, silence, sessions,
                     [acc EXCEPT
                        !.connections = ClusterConnections_remove(@, connection.node_id,
                                                                  connection.is_inbound),
                        !.timeouts = @ \cup ClusterSessions_on_connection_timeout(
                                                 sessions, connection.node_id)])
             ELSE IF last_message_diff > IdleSeconds
             THEN KeepAliveEach(n, rest, silence, sessions,
                     [acc EXCEPT !.keepalives = @ \cup {connection}])
             ELSE KeepAliveEach(n, rest, silence, sessions, acc)

KeepAliveEach(n, todo, silence, sessions, acc) ==
    IF todo = {} THEN acc
    ELSE LET connection == CHOOSE c \in todo : \A d \in todo : c.node_id <= d.node_id
             last_message_diff == Silence(silence, n, connection)
             rest == todo \ {connection}
         IN  IF last_message_diff > DeadSeconds
             THEN KeepAliveEach(n, rest, silence, sessions,
                     [acc EXCEPT
                        !.connections = ClusterConnections_remove(@, connection.node_id,
                                                                  connection.is_inbound),
                        !.timeouts = @ \cup ClusterSessions_on_connection_timeout(
                                                 sessions, connection.node_id)])
             ELSE IF last_message_diff > IdleSeconds
             THEN KeepAliveEach(n, rest, silence, sessions,
                     [acc EXCEPT !.keepalives = @ \cup {connection}])
             ELSE KeepAliveEach(n, rest, silence, sessions, acc)

ClusterImpl_keep_alive(n, map, silence, sessions) ==
    KeepAliveEach(n, map, silence, sessions,
                  [connections |-> map, keepalives |-> {}, timeouts |-> {}])

\* Time advances by IdleSeconds, so that a silence is 0, 30, 60 or more
\* seconds; a silence beyond the dead threshold is not told apart from a
\* longer one.
TimePasses ==
    /\ last_message_time' =
           [e \in DOMAIN last_message_time |->
               IF last_message_time[e] > DeadSeconds THEN last_message_time[e]
               ELSE last_message_time[e] + IdleSeconds]
    /\ UNCHANGED <<registry_vars, encryption_sessions, unnotified, tick_last>>
    /\ UNCHANGED <<consensus_vars, view_vars, session_vars>>

\* connection.set_last_message_time(now) by the read loop r.
Refreshed(r) ==
    Registered(last_message_time, r.at, connections[r.at], {r.conn} \cap connections[r.at])

\* The read loop r is between two messages.
Idle(r) == \A w \in workers : w.reader # r

\* process_connection_messages, Ok(message) -> process_connection_message,
\* the arm of the messages that are neither Encryption nor Decryption: a
\* KeepAlive is read, last_message_time is set to now and a warning is logged.
ProcessConnectionMessage ==
    \E r \in readers :
        /\ Idle(r)
        /\ last_message_time' = Refreshed(r)
        /\ msg_last' = Handled(r.at, r.conn.link, "KeepAlive", 0, "Ok", <<>>, FALSE, FALSE)
        /\ UNCHANGED <<registry_vars, encryption_sessions, unnotified, tick_last>>
        /\ UNCHANGED <<arcs, wire, workers, timers, injected>>
        /\ UNCHANGED <<consensus_vars, view_vars, view_vars>>

\* ClusterImpl::new_encryption_session: a session is started at node n with
\* a view of the connected nodes and n itself.
NewEncryptionSession ==
    \E n \in NodeId, session_id \in SessionId :
        /\ session_id \notin DOMAIN encryption_sessions[n]
        /\ encryption_sessions' = [encryption_sessions EXCEPT ![n] =
               MapInsert(@, session_id,
                   EncryptionSession(NewArc(arcs[n]),
                       {c.node_id : c \in connections[n]} \cup {n}))]
        /\ arcs' = [arcs EXCEPT ![n] = MapInsert(@, NewArc(arcs[n]), "Other")]
        /\ UNCHANGED <<registry_vars, last_message_time, unnotified, tick_last>>
        /\ UNCHANGED <<consensus_vars, view_vars, wire, workers, timers, injected, msg_last>>

\* The maintenance tick at node n, first half: keep_alive.
KeepAlive ==
    \E n \in NodeId :
        LET silence == [e \in {End(n, c.link) : c \in connections[n]} |->
                           last_message_time[e]]
            k == ClusterImpl_keep_alive(n, connections[n], silence, encryption_sessions[n])
        IN
        /\ connections' = [connections EXCEPT ![n] = k.connections]
        /\ tick_last' = Tick(n, ~tick_last.odd, k.keepalives, k.timeouts)
        /\ unnotified' = {u \in unnotified :
                             ~(u[1] = n /\ \E t \in k.timeouts : t[2] = u[2])}
        /\ last_message_time' = Registered(last_message_time, n, k.connections, {})
        /\ UNCHANGED <<results, readers, dialed, reg_prev, reg_last>>
        /\ UNCHANGED encryption_sessions
        /\ UNCHANGED <<consensus_vars, view_vars, session_vars>>

\* The kinds of EncryptionMessage.  ConfirmInitialization stands for the kinds
\* routed by the same code: CompleteInitialization, Complaint,
\* ComplaintResponse and PublicKeyShare.
EncryptionMessageKind ==
    {"InitializeSession", "ConfirmInitialization", "KeysDissemination", "SessionError"}

\* message::SessionError { session, error }; the error is format!("{:?}", err),
\* the name of the variant of Error.
SessionError(session, error) == [session |-> session, error |-> error]

\* What a handler of the session returns: Ok(()) or an error of the session.
HandlerResult == {"Ok", "InvalidStateForRequest"}

\* on_keys_dissemination in state `state`: the states it may leave the session
\* in.  The last awaited dissemination brings the session into KeyCheck, and
\* KeyCheck is kept while late disseminations arrive.
EncryptionSession_on_keys_dissemination(state) ==
    IF state = "Other" THEN {"Other", "KeyCheck"} ELSE {state}

\* start_key_generation_phase: the session leaves KeyCheck for the key
\* generation; in any other state the call fails and the state is kept.
EncryptionSession_start_key_generation_phase(state) ==
    IF state = "KeyCheck" THEN "Started" ELSE state

\* The messages written to the end e of a link and not yet read there.
Unread(w, e) == IF e \in DOMAIN w THEN w[e] ELSE <<>>

\* connection.send_message: `messages` are written to the peer's end e.
Written(w, e, messages) ==
    IF messages = <<>> THEN w ELSE MapInsert(w, e, Unread(w, e) \o messages)

\* read_message at the end e takes the first unread message.
Taken(w, e) ==
    IF Len(Unread(w, e)) <= 1 THEN MapRemove(w, e) ELSE MapInsert(w, e, Tail(w[e]))

\* The end of the link of reader r at the peer.
PeerEnd(r) == End(r.conn.node_id, r.conn.link)

ClusterConnections_connected_nodes(map) == {c.node_id : c \in map}

ClusterSessions_new_encryption_session(sessions, session_id, arc, nodes) ==
    IF session_id \in DOMAIN sessions
    THEN [sessions |-> sessions, res |-> "DuplicateSessionId"]
    ELSE [sessions |-> MapInsert(sessions, session_id, EncryptionSession(arc, nodes)),
          res |-> "Ok"]

ClusterSessions_remove_encryption_session(sessions, session_id) ==
    MapRemove(sessions, session_id)

\* process_encryption_message, `let result = match message { ... }` for a
\* message of `kind` for `session_id` read at node n: the registry of sessions
\* after it, the session object the handler ran on (NoArc if none did) and
\* `result`; `outcome` is what the handler returns if it runs.
MatchMessage(n, sessions, states, registry, kind, session_id, outcome) ==
    IF kind = "InitializeSession"
    THEN LET connected_nodes == ClusterConnections_connected_nodes(registry) \cup {n}
             created == ClusterSessions_new_encryption_session(
                            sessions, session_id, NewArc(states), connected_nodes)
         IN  IF created.res = "Ok"
             THEN [sessions |-> created.sessions, arc |-> NewArc(states),
                   result |-> outcome]
             ELSE [sessions |-> sessions, arc |-> NoArc, result |-> created.res]
    ELSE IF session_id \in DOMAIN sessions
         THEN [sessions |-> sessions, arc |-> sessions[session_id].arc,
               result |-> outcome]
         ELSE [sessions |-> sessions, arc |-> NoArc, result |-> "InvalidSessionId"]

\* Mutant: the failed session is left in the registry.
OnResult_KeepsSession(sessions, session_id, result) ==
    IF result # "Ok"
    THEN [sessions |-> sessions, replies |-> <<SessionError(session_id, result)>>]
    ELSE [sessions |-> sessions, replies |-> <<>>]

\* process_encryption_message, `if let Err((session_id, err)) = result`: the
\* registry of sessions after it and the messages sent on the connection.
OnResult(sessions, session_id, result) ==
    IF result # "Ok"
    THEN [sessions |-> ClusterSessions_remove_encryption_session(sessions, session_id),
          replies |-> <<SessionError(session_id, result)>>]
    ELSE [sessions |-> sessions, replies |-> <<>>]

\* process_connection_message for an encryption message read by r whose
\* handling is one call of the session: every message but a KeysDissemination
\* for a registered session.  `w` is the wire once the message is read.
ProcessEncryptionMessage(r, kind, session_id, outcome, w) ==
    LET n == r.at
        m == MatchMessage(n, encryption_sessions[n], arcs[n], connections[n],
                          kind, session_id, outcome)
        states == IF kind = "InitializeSession" /\ m.arc # NoArc
                  THEN MapInsert(arcs[n], m.arc, "Other") ELSE arcs[n]
        e == OnResult(m.sessions, session_id, m.result)
    IN
    /\ Idle(r)
    /\ ~(kind = "KeysDissemination" /\ session_id \in DOMAIN encryption_sessions[n])
    /\ last_message_time' = Refreshed(r)
    /\ encryption_sessions' = [encryption_sessions EXCEPT ![n] = e.sessions]
    /\ arcs' = [arcs EXCEPT ![n] =
                   Alive(states, Held_arcs(n, e.sessions, workers, timers[n]))]
    /\ wire' = Written(w, PeerEnd(r), e.replies)
    /\ msg_last' = Handled(n, r.conn.link, kind, session_id, m.result, e.replies,
                           FALSE, FALSE)
    /\ UNCHANGED <<registry_vars, unnotified, tick_last, workers, timers>>
    /\ UNCHANGED <<consensus_vars, view_vars, view_vars>>

\* A message sent by a session of the peer is read and handled.
ReadMessage ==
    \E r \in readers, kind \in EncryptionMessageKind, session_id \in SessionId,
       outcome \in HandlerResult :
        /\ injected < MaxMessages
        /\ injected' = injected + 1
        /\ ProcessEncryptionMessage(r, kind, session_id, outcome, wire)

\* A SessionError written by the peer's process_encryption_message is read
\* and handled.
ReadSessionError ==
    \E r \in readers, outcome \in HandlerResult :
        LET e == End(r.at, r.conn.link) IN
        /\ Unread(wire, e) # <<>>
        /\ UNCHANGED injected
        /\ ProcessEncryptionMessage(r, "SessionError", Head(wire[e]).session, outcome,
                                    Taken(wire, e))

\* A worker of the pool handling a KeysDissemination read by `reader`, for the
\* session object `arc` registered as `session`: the state sampled before the
\* delivery, and once delivered (pc = "delivered") the handler's result and
\* whether the delivery brought the session into KeyCheck.
Worker(reader, session, arc, is_in_key_check_state, pc, result, entered) ==
    [reader |-> reader, session |-> session, arc |-> arc,
     is_in_key_check_state |-> is_in_key_check_state, pc |-> pc,
     result |-> result, entered |-> entered]

\* KeysDissemination for a registered session, lines 367-371: the message is
\* read, the session is looked up and its state() is sampled.
KeysDisseminationRead ==
    \E r \in readers, session_id \in SessionId :
        LET n == r.at IN
        /\ Idle(r)
        /\ injected < MaxMessages
        /\ session_id \in DOMAIN encryption_sessions[n]
        /\ injected' = injected + 1
        /\ last_message_time' = Refreshed(r)
        /\ workers' = workers \cup
               {Worker(r, session_id, encryption_sessions[n][session_id].arc,
                       arcs[n][encryption_sessions[n][session_id].arc] = "KeyCheck",
                       "sampled", "none", FALSE)}
        /\ UNCHANGED <<registry_vars, encryption_sessions, unnotified, tick_last>>
        /\ UNCHANGED <<arcs, wire, timers, msg_last>>
        /\ UNCHANGED <<consensus_vars, view_vars, view_vars>>

\* Line 372: s.on_keys_dissemination(node, message), under the session's lock.
KeysDisseminationDeliver ==
    \E w \in workers, outcome \in HandlerResult :
        LET n == w.reader.at IN
        \E state \in EncryptionSession_on_keys_dissemination(arcs[n][w.arc]) :
            /\ w.pc = "sampled"
            /\ arcs' = [arcs EXCEPT ![n][w.arc] = state]
            /\ workers' = (workers \ {w}) \cup
                   {[w EXCEPT !.pc = "delivered", !.result = outcome,
                              !.entered = (arcs[n][w.arc] # "KeyCheck"
                                           /\ state = "KeyCheck")]}
            /\ UNCHANGED <<registry_vars, maintain_vars>>
            /\ UNCHANGED <<wire, timers, injected, msg_last>>
            /\ UNCHANGED <<consensus_vars, view_vars, view_vars>>

\* Line 373: whether the worker w, finding the session in `state` after its
\* delivery, spawns the Timeout.
Spawns(w, state) == ~w.is_in_key_check_state /\ state = "KeyCheck"

\* Lines 373-383 and 399-405: state() is sampled again, the Timeout is
\* spawned if the two samples tell of a transition into KeyCheck, and an Err
\* of the handler removes the session and is answered by a SessionError.
KeysDisseminationDone ==
    \E w \in workers :
        LET n == w.reader.at
            spawn == Spawns(w, arcs[n][w.arc])
            ts == IF spawn
                  THEN MapInsert(timers[n], w.arc,
                                 IF w.arc \in DOMAIN timers[n] THEN timers[n][w.arc] + 1
                                 ELSE 1)
                  ELSE timers[n]
            e == OnResult(encryption_sessions[n], w.session, w.result)
        IN
        /\ w.pc = "delivered"
        /\ workers' = workers \ {w}
        /\ timers' = [timers EXCEPT ![n] = ts]
        /\ encryption_sessions' = [encryption_sessions EXCEPT ![n] = e.sessions]
        /\ arcs' = [arcs EXCEPT ![n] =
                       Alive(@, Held_arcs(n, e.sessions, workers', ts))]
        /\ wire' = Written(wire, PeerEnd(w.reader), e.replies)
        /\ msg_last' = Handled(n, w.reader.conn.link, "KeysDissemination", w.session,
                               w.result, e.replies, w.entered, spawn)
        /\ UNCHANGED <<registry_vars, last_message_time, unnotified, tick_last, injected>>
        /\ UNCHANGED <<consensus_vars, view_vars, view_vars>>

\* Lines 375-380: a Timeout expires and calls start_key_generation_phase on
\* the session it holds.
TimeoutExpires ==
    \E n \in NodeId :
        \E arc \in DOMAIN timers[n] :
            LET ts == IF timers[n][arc] = 1 THEN MapRemove(timers[n], arc)
                      ELSE MapInsert(timers[n], arc, timers[n][arc] - 1)
                states == [arcs[n] EXCEPT ![arc] =
                              EncryptionSession_start_key_generation_phase(@)]
            IN
            /\ timers' = [timers EXCEPT ![n] = ts]
            /\ arcs' = [arcs EXCEPT ![n] =
                           Alive(states, Held_arcs(n, encryption_sessions[n],
                                                   workers, ts))]
            /\ UNCHANGED <<registry_vars, maintain_vars>>
            /\ UNCHANGED <<wire, workers, injected, msg_last>>
            /\ UNCHANGED <<consensus_vars, view_vars, view_vars>>

\* ClusterData::connection: Some(connection) as a one-element set, None as {}.
ClusterData_connection(registry, node) == {c \in registry : c.node_id = node}

\* ClusterView::broadcast, the loop over core.nodes (a BTreeSet, in ascending
\* order) but self: `todo` is what is left of it, `sent` the connections
\* send_message was spawned on so far.
RECURSIVE BroadcastEach(_, _, _)
\* Mutant: a node that is not connected is passed over.
BroadcastEach_SkipsDisconnected(todo, registry, sent) ==
    IF todo = {} THEN [res |-> "Ok", sent |-> sent]
    ELSE LET node == CHOOSE n \in todo : \A m \in todo : n <= m IN
         BroadcastEach(todo \ {node}, registry,
                       sent \cup ClusterData_connection(registry, node))

BroadcastEach(todo, registry, sent) ==
    IF todo = {} THEN [res |-> "Ok", sent |-> sent]
    ELSE LET node == CHOOSE n \in todo : \A m \in todo : n <= m
             connection == ClusterData_connection(registry, node)
         IN  IF connection = {}
             THEN [res |-> "NodeDisconnected", sent |-> sent]
             ELSE BroadcastEach(todo \ {node}, registry, sent \cup connection)

ClusterView_broadcast(self_node_id, nodes, registry) ==
    BroadcastEach(nodes \ {self_node_id}, registry, {})

ClusterView_send(nodes, registry, to) ==
    IF ClusterData_connection(registry, to) = {}
    THEN [res |-> "NodeDisconnected", sent |-> {}]
    ELSE [res |-> "Ok", sent |-> ClusterData_connection(registry, to)]

\* A session of node n broadcasts through its ClusterView.  What is
\* dispatched is read at the peers by ReadMessage.
Broadcast ==
    \E n \in NodeId :
        \E session_id \in DOMAIN encryption_sessions[n] :
            LET b == ClusterView_broadcast(n, encryption_sessions[n][session_id].nodes,
                                           connections[n])
            IN
            /\ view_last' = ViewCall("broadcast", n, session_id, NoNode, b.res, b.sent,
                                     ~view_last.odd)
            /\ UNCHANGED <<consensus_vars, registry_vars, maintain_vars, session_vars>>

\* A session of node n sends to the node `to` through its ClusterView.
Send ==
    \E n \in NodeId, to \in NodeId :
        \E session_id \in DOMAIN encryption_sessions[n] :
            LET b == ClusterView_send(encryption_sessions[n][session_id].nodes,
                                      connections[n], to)
            IN
            /\ view_last' = ViewCall("send", n, session_id, to, b.res, b.sent,
                                     ~view_last.odd)
            /\ UNCHANGED <<consensus_vars, registry_vars, maintain_vars, session_vars>>

Init == ConsensusInit /\ ClusterInit

\* The links of a chain of nodes: node 1 has dialed node 2, node 2 node 3, ...
ChainLinks == {Link(i, i, i + 1) : i \in {i \in 1..MaxDials : i + 1 \in NodeId}}

\* The registry of node n once `links` are established.
LinkRegistry(links, n) ==
    {Connection(l.to, FALSE, l) : l \in {l \in links : l.from = n}}
    \cup {Connection(l.from, TRUE, l) : l \in {l \in links : l.to = n}}

\* The registry of node n once the links of the chain are established.
ChainRegistry(n) == LinkRegistry(ChainLinks, n)

\* The cluster once `links` are established: each is in the registry of both
\* its ends, just made, and read at both; no session yet.
LinksInit(links) ==
    /\ ConsensusInit
    /\ connections = [n \in NodeId |-> LinkRegistry(links, n)]
    /\ results = {}
    /\ readers = UNION {{[at |-> n, conn |-> c] : c \in LinkRegistry(links, n)} : n \in NodeId}
    /\ dialed = links
    /\ reg_prev = {}
    /\ reg_last = RegistryCall("none", NoNode, NoNode, FALSE, NoLink, FALSE)
    /\ last_message_time =
           [e \in UNION {{End(n, c.link) : c \in LinkRegistry(links, n)} : n \in NodeId} |-> 0]
    /\ encryption_sessions = [n \in NodeId |-> EmptyMap]
    /\ unnotified = {}
    /\ tick_last = Tick(NoNode, FALSE, {}, {})
    /\ arcs = [n \in NodeId |-> EmptyMap]
    /\ wire = EmptyMap
    /\ workers = {}
    /\ timers = [n \in NodeId |-> EmptyMap]
    /\ injected = 0
    /\ msg_last = NoMessage
    /\ view_last = NoViewCall

\* The cluster once the links of the chain are established.
ChainInit == LinksInit(ChainLinks)

\* The cluster once its first link, of node 1 to node 2, is established.
PairInit == LinksInit({Link(1, 1, 2)})

Next ==
    \/ New
    \/ AcceptOffer
    \/ RejectOffer
    \/ Activate
    \/ SelectNodes
    \/ SelectedNodes
    \/ JobRequestSent
    \/ JobResponseReceived
    \/ NodeTimeouted
    \/ SessionTimeouted

Spec == Init /\ [][Next]_vars

ClusterNext ==
    \/ Connect
    \/ ProcessConnectionResult
    \/ ConnectionFailed
    \/ ReadClosed
    \/ NetworkError

SpecCluster == Init /\ [][ClusterNext]_vars

\* The cluster while the network delivers and every handshake succeeds.
CrossDialNext ==
    \/ Connect
    \/ ProcessConnectionResult
    \/ ReadClosed

SpecCrossDial == Init /\ [][CrossDialNext]_vars

\* The cluster forming its mesh: the nodes are up, the network delivers and
\* every handshake succeeds; dials, results and reads are scheduled fairly.
MeshNext ==
    \/ \E a \in NodeId : Dial(a)
    \/ ProcessConnectionResult
    \/ ReadClosed

SpecMesh ==
    Init /\ [][MeshNext]_vars /\ (\A a \in NodeId : WF_vars(Dial(a)))
         /\ WF_vars(ProcessConnectionResult) /\ WF_vars(ReadClosed)

\* The cluster with its maintenance ticks, the passing of time and sessions.
MaintainNext ==
    \/ TimePasses
    \/ ProcessConnectionMessage
    \/ NewEncryptionSession
    \/ KeepAlive

SpecMaintain == ChainInit /\ [][MaintainNext]_vars

\* The cluster losing links: reads fail, the interval of schedule_maintain
\* keeps firing and time keeps passing.
LossNext ==
    \/ TimePasses
    \/ NewEncryptionSession
    \/ KeepAlive
    \/ ReadClosed
    \/ NetworkError

SpecLoss ==
    ChainInit /\ [][LossNext]_vars /\ WF_vars(KeepAlive) /\ WF_vars(TimePasses)
            /\ WF_vars(ReadClosed)

\* The cluster forming and losing links while its sessions use their views.
ViewNext ==
    \/ Connect
    \/ ProcessConnectionResult
    \/ ReadClosed
    \/ NetworkError
    \/ NewEncryptionSession
    \/ Broadcast
    \/ Send

SpecView == PairInit /\ [][ViewNext]_vars

\* The cluster handling the encryption messages of its sessions.
SessionNext ==
    \/ NewEncryptionSession
    \/ ReadMessage
    \/ ReadSessionError
    \/ KeysDisseminationRead
    \/ KeysDisseminationDeliver
    \/ KeysDisseminationDone
    \/ TimeoutExpires

SpecSession == ChainInit /\ [][SessionNext]_vars

\* The same, every SessionError that is written being read in the end.
SpecSessionFair == ChainInit /\ [][SessionNext]_vars /\ WF_vars(ReadSessionError)

-----------------------------------------------------------------------------
\* Properties of the consensus engine.  A property of one call is an action
\* property over the step that made it: `last'` is the call, the unprimed
\* variables the state it was made in, the primed ones the state it left.

\* What is left of requested once `node` has answered or timed out.
RequestedAfter(core, node) == core.requested_nodes \ {node}

Remaining(requested, confirmed) == Cardinality(requested) + Cardinality(confirmed)

\* C1: reject_offer(node) with node in requested, in any state that carries a
\* core: once the node has moved to rejected, if |requested| + |confirmed| <
\* threshold + 1 the consensus becomes Unreachable and the call returns
\* ConsensusUnreachable; otherwise the call returns Ok and the state kind is
\* unchanged.
C1_RejectOfferChecksViability ==
    [][(/\ last'.op = "reject_offer"
        /\ HasCore(consensus)
        /\ last'.node \in CoreOf(consensus).requested_nodes)
       => LET core == CoreOf(consensus)
              left == Remaining(RequestedAfter(core, last'.node), core.confirmed_nodes)
          IN  IF left < core.threshold + 1
              THEN consensus'.kind = "Unreachable" /\ last'.res = "ConsensusUnreachable"
              ELSE last'.res = "Ok" /\ consensus'.kind = consensus.kind]_vars

\* C2: accept_offer(node) fails with InvalidStateForRequest and changes
\* nothing when node is not in requested; otherwise it moves node from
\* requested to confirmed.  In Establishing the consensus becomes Established
\* exactly when the accept makes |confirmed| = threshold + 1; in Established,
\* Active and Completed only the core changes.
C2_AcceptOffer ==
    [][last'.op = "accept_offer"
       => IF ~HasCore(consensus) \/ last'.node \notin CoreOf(consensus).requested_nodes
          THEN last'.res = "InvalidStateForRequest" /\ consensus' = consensus
          ELSE LET core == CoreOf(consensus)
                   moved == ConsensusCore(core.threshold,
                                          core.requested_nodes \ {last'.node},
                                          core.rejected_nodes,
                                          core.confirmed_nodes \cup {last'.node})
               IN  /\ last'.res = "Ok"
                   /\ CASE consensus.kind = "Establishing" ->
                              consensus' =
                                  IF Cardinality(moved.confirmed_nodes) = core.threshold + 1
                                  THEN Established(moved)
                                  ELSE Establishing(moved)
                        [] consensus.kind = "Established" ->
                              consensus' = Established(moved)
                        [] OTHER ->
                              consensus' = [consensus EXCEPT !.active.core = moved]]_vars

\* The accept that established the consensus: nothing was rejected or timed
\* out, and the accepted node is the (threshold+1)-th confirmed one.
C2_Witness ==
    /\ last.op = "accept_offer"
    /\ last.res = "Ok"
    /\ consensus.kind = "Established"
    /\ consensus.core.rejected_nodes = {}
    /\ last.node \in consensus.core.confirmed_nodes
    /\ Cardinality(consensus.core.confirmed_nodes) = consensus.core.threshold + 1
    /\ consensus.core.threshold >= 1

\* C3: new(threshold, nominated) fails with InvalidThreshold exactly when
\* |nominated| < threshold + 1; otherwise it returns an Establishing
\* consensus with requested = nominated and rejected = confirmed = {}.
C3_New ==
    last.op = "new"
    => /\ last.res \in {"Ok", "InvalidThreshold"}
       /\ last.res = "InvalidThreshold" <=> Cardinality(last.nodes) < last.threshold + 1
       /\ last.res = "InvalidThreshold" => consensus.kind = "None"
       /\ last.res = "Ok"
          => /\ consensus.kind = "Establishing"
             /\ consensus.core.threshold = last.threshold
             /\ consensus.core.requested_nodes = last.nodes
             /\ consensus.core.rejected_nodes = {}
             /\ consensus.core.confirmed_nodes = {}

\* new succeeded with exactly threshold + 1 nominated nodes.
C3_Witness ==
    /\ last.op = "new"
    /\ last.res = "Ok"
    /\ last.threshold >= 1
    /\ Cardinality(last.nodes) = last.threshold + 1
    /\ consensus.kind = "Establishing"

\* C4: in every reachable state that carries a core, requested, confirmed and
\* rejected are pairwise disjoint and their union is the nomination set given
\* to new.
C4_CorePartition ==
    HasCore(consensus)
    => LET core == CoreOf(consensus) IN
       /\ core.requested_nodes \cap core.confirmed_nodes = {}
       /\ core.requested_nodes \cap core.rejected_nodes = {}
       /\ core.confirmed_nodes \cap core.rejected_nodes = {}
       /\ core.requested_nodes \cup core.confirmed_nodes \cup core.rejected_nodes
              = nominated
       /\ Cardinality(core.requested_nodes) + Cardinality(core.confirmed_nodes)
              + Cardinality(core.rejected_nodes) = Cardinality(nominated)

\* A timeout has just moved a node into rejected, and all three sets are
\* inhabited.
C4_Witness ==
    /\ last.op = "node_timeouted"
    /\ HasCore(consensus)
    /\ last.node \in CoreOf(consensus).rejected_nodes
    /\ CoreOf(consensus).requested_nodes # {}
    /\ CoreOf(consensus).confirmed_nodes # {}

\* C5: in every reachable Active state, selected is a subset of
\* core.confirmed.
C5_SelectedSubsetConfirmed ==
    consensus.kind = "Active"
    => consensus.active.selected_nodes \subseteq consensus.active.core.confirmed_nodes

\* C6: whenever select_nodes succeeds on an Active consensus, selected has
\* exactly threshold + 1 members, which are the threshold + 1 smallest node
\* ids of confirmed; select_nodes fails with InvalidStateForRequest when
\* selected is already non-empty or the state is not Active.
C6_SelectNodes ==
    [][last'.op = "select_nodes"
       => IF consensus.kind = "Active" /\ consensus.active.selected_nodes = {}
          THEN LET confirmed == consensus.active.core.confirmed_nodes
                   selected == consensus'.active.selected_nodes
               IN  /\ last'.res = "Ok"
                   /\ consensus'.kind = "Active"
                   /\ Cardinality(selected) = consensus.active.core.threshold + 1
                   /\ selected \subseteq confirmed
                   /\ \A s \in selected : \A c \in confirmed \ selected : s < c
          ELSE last'.res = "InvalidStateForRequest" /\ consensus' = consensus]_vars

\* C7: in every reachable Active state, no node is both in in_flight
\* (active_requests) and in the domain of responses.
C7_InFlightDisjointResponses ==
    consensus.kind = "Active"
    => consensus.active.active_requests \cap DOMAIN consensus.active.responses = {}

\* C8: in every reachable Active state, in_flight (active_requests) and the
\* domain of responses are subsets of selected.
C8_WorkWithinSelected ==
    consensus.kind = "Active"
    => /\ consensus.active.active_requests \subseteq consensus.active.selected_nodes
       /\ DOMAIN consensus.active.responses \subseteq consensus.active.selected_nodes

\* One selected node has a request in flight and another has responded.
C8_Witness ==
    /\ consensus.kind = "Active"
    /\ consensus.active.active_requests # {}
    /\ DOMAIN consensus.active.responses # {}
    /\ consensus.active.active_requests # DOMAIN consensus.active.responses

\* The core `core` after a timeout of `node`: the node, if requested or
\* confirmed, is rejected.
TimedOut(core, node) ==
    IF node \in core.requested_nodes \cup core.confirmed_nodes
    THEN ConsensusCore(core.threshold,
                       core.requested_nodes \ {node},
                       core.rejected_nodes \cup {node},
                       core.confirmed_nodes \ {node})
    ELSE core

Viable(core) ==
    Remaining(core.requested_nodes, core.confirmed_nodes) >= core.threshold + 1

\* C9: node_timeouted(node) in Active moves the node (if requested or
\* confirmed) to rejected.  While |requested| + |confirmed| >= threshold + 1
\* still holds, it returns true iff the node was in in_flight or had a
\* recorded response, and then selected, in_flight and responses are empty
\* and the state is still Active; otherwise it returns false and leaves
\* selected, in_flight and responses untouched.  When viability is lost the
\* consensus becomes Unreachable and the call returns ConsensusUnreachable.
C9_NodeTimeoutedActive ==
    [][(last'.op = "node_timeouted" /\ consensus.kind = "Active")
       => LET active == consensus.active
              moved == TimedOut(active.core, last'.node)
              worked == \/ last'.node \in active.active_requests
                        \/ last'.node \in DOMAIN active.responses
          IN  IF Viable(moved)
              THEN /\ consensus'.kind = "Active"
                   /\ consensus'.active.core = moved
                   /\ IF worked
                      THEN /\ last'.res = "Ok(true)"
                           /\ consensus'.active.selected_nodes = {}
                           /\ consensus'.active.active_requests = {}
                           /\ DOMAIN consensus'.active.responses = {}
                      ELSE /\ last'.res = "Ok(false)"
                           /\ consensus'.active.selected_nodes = active.selected_nodes
                           /\ consensus'.active.active_requests = active.active_requests
                           /\ consensus'.active.responses = active.responses
              ELSE consensus' = Unreachable /\ last'.res = "ConsensusUnreachable"]_vars

\* A timeout in Active asked for a restart and left a viable, cleared Active
\* consensus in which the timed-out node is rejected.
C9_Witness ==
    /\ last.op = "node_timeouted"
    /\ last.res = "Ok(true)"
    /\ consensus.kind = "Active"
    /\ last.node \in consensus.active.core.rejected_nodes
    /\ consensus.active.selected_nodes = {}
    /\ consensus.active.core.confirmed_nodes # {}

\* C10: node_timeouted(node) in Establishing or Established moves the node to
\* rejected if it is requested or confirmed and changes no set otherwise; it
\* returns false with the state kind unchanged when |requested| + |confirmed|
\* >= threshold + 1 afterwards, and otherwise makes the consensus Unreachable
\* and returns ConsensusUnreachable.  In Completed it returns false and
\* changes nothing.
C10_NodeTimeoutedEstablishing ==
    [][(/\ last'.op = "node_timeouted"
        /\ consensus.kind \in {"Establishing", "Established", "Completed"})
       => IF consensus.kind = "Completed"
          THEN last'.res = "Ok(false)" /\ consensus' = consensus
          ELSE LET moved == TimedOut(consensus.core, last'.node) IN
               IF Viable(moved)
               THEN /\ last'.res = "Ok(false)"
                    /\ consensus' = [kind |-> consensus.kind, core |-> moved]
               ELSE consensus' = Unreachable /\ last'.res = "ConsensusUnreachable"]_vars

\* A confirmed node of an Established consensus timed out and the consensus
\* stayed Established.
C10_Witness ==
    /\ last.op = "node_timeouted"
    /\ last.res = "Ok(false)"
    /\ consensus.kind = "Established"
    /\ last.node \in consensus.core.rejected_nodes
    /\ Cardinality(consensus.core.confirmed_nodes) >= consensus.core.threshold + 1

-----------------------------------------------------------------------------
\* The properties below read the state a call was made in from `prev`: every
\* step of the specification is one call, so a state predicate over prev,
\* last and consensus is a property of that call.

\* C11: session_timeouted() in Establishing or Established performs the
\* viability check: it returns Ok and leaves the consensus as it is when
\* |requested| + |confirmed| >= threshold + 1, and makes it Unreachable
\* (returning ConsensusUnreachable) only when that inequality fails.
C11_SessionTimeoutedChecksViability ==
    (last.op = "session_timeouted" /\ prev.kind \in {"Establishing", "Established"})
    => IF Viable(prev.core)
       THEN last.res = "Ok" /\ consensus = prev
       ELSE consensus = Unreachable /\ last.res = "ConsensusUnreachable"

\* C11, amended: session_timeouted() in Establishing or Established makes no
\* viability check: it always makes the consensus Unreachable and returns
\* ConsensusUnreachable.
C11_SessionTimeoutedBeforeActive ==
    (last.op = "session_timeouted" /\ prev.kind \in {"Establishing", "Established"})
    => consensus = Unreachable /\ last.res = "ConsensusUnreachable"

\* A session timeout hit an Established consensus that was still viable.
C11_Witness ==
    /\ last.op = "session_timeouted"
    /\ prev.kind = "Established"
    /\ Viable(prev.core)
    /\ Cardinality(prev.core.confirmed_nodes) >= prev.core.threshold + 1
    /\ consensus = Unreachable

\* C12: session_timeouted() in Active moves every node that is in in_flight
\* from confirmed to rejected, leaves the nodes that already responded in
\* confirmed, and always clears selected, in_flight and responses; it returns
\* Ok and stays Active if |requested| + |confirmed| >= threshold + 1
\* afterwards, and otherwise becomes Unreachable and returns
\* ConsensusUnreachable.
C12_SessionTimeoutedActive ==
    (last.op = "session_timeouted" /\ prev.kind = "Active")
    => LET active == prev.active
           core == active.core
           requested == core.requested_nodes \ active.active_requests
           confirmed == core.confirmed_nodes \ active.active_requests
       IN  IF Remaining(requested, confirmed) >= core.threshold + 1
           THEN /\ last.res = "Ok"
                /\ consensus.kind = "Active"
                /\ \A n \in active.active_requests :
                       n \notin consensus.active.core.confirmed_nodes
                       /\ (n \in core.confirmed_nodes
                              => n \in consensus.active.core.rejected_nodes)
                /\ \A n \in DOMAIN active.responses :
                       n \in core.confirmed_nodes
                           => n \in consensus.active.core.confirmed_nodes
                /\ consensus.active.selected_nodes = {}
                /\ consensus.active.active_requests = {}
                /\ DOMAIN consensus.active.responses = {}
           ELSE consensus = Unreachable /\ last.res = "ConsensusUnreachable"

\* C13: Unreachable is absorbing: no call moves an Unreachable consensus to
\* another state, and accept_offer, reject_offer, activate, select_nodes,
\* selected_nodes, job_request_sent, job_response_received and node_timeouted
\* each fail with InvalidStateForRequest.
C13_UnreachableAbsorbing ==
    prev.kind = "Unreachable"
    => /\ consensus = Unreachable
       /\ last.op \in {"accept_offer", "reject_offer", "activate", "select_nodes",
                       "selected_nodes", "job_request_sent", "job_response_received",
                       "node_timeouted"}
              => last.res = "InvalidStateForRequest"

\* A rejection was offered to a consensus that was already Unreachable.
C13_Witness ==
    /\ prev.kind = "Unreachable"
    /\ last.op = "reject_offer"
    /\ last.res = "InvalidStateForRequest"
    /\ consensus = Unreachable

\* C14: once every selected node's job response has been received (in_flight
\* empty and responses covering selected), the consensus is in the Completed
\* state.
C14_CompletedWhenAllResponded ==
    (/\ consensus.kind \in {"Active", "Completed"}
     /\ consensus.active.selected_nodes # {}
     /\ consensus.active.active_requests = {}
     /\ DOMAIN consensus.active.responses = consensus.active.selected_nodes)
    => consensus.kind = "Completed"

\* C15: job_request_sent(node) succeeds only in Active and only when node is
\* in confirmed, in selected and not in in_flight, and then adds node to
\* in_flight and changes nothing else; in Active it otherwise fails with
\* InvalidNodeForRequest, outside Active with InvalidStateForRequest, and a
\* failing call leaves the consensus unchanged.
C15_JobRequestSent ==
    last.op = "job_request_sent"
    => IF prev.kind # "Active"
       THEN last.res = "InvalidStateForRequest" /\ consensus = prev
       ELSE IF /\ last.node \in prev.active.core.confirmed_nodes
               /\ last.node \in prev.active.selected_nodes
               /\ last.node \notin prev.active.active_requests
       THEN /\ last.res = "Ok"
            /\ consensus = [prev EXCEPT !.active.active_requests = @ \cup {last.node}]
       ELSE last.res = "InvalidNodeForRequest" /\ consensus = prev

\* The second of two selected nodes was sent its job request.
C15_Witness ==
    /\ last.op = "job_request_sent"
    /\ last.res = "Ok"
    /\ consensus.kind = "Active"
    /\ last.node \in consensus.active.active_requests
    /\ last.node \notin prev.active.active_requests
    /\ prev.active.active_requests # {}

\* C16: job_response_received(node, r) in Active or Completed succeeds iff
\* node is in in_flight; on success node leaves in_flight and responses[node]
\* = r, with core and selected unchanged; if node is not in in_flight, or the
\* state is Establishing, Established or Unreachable, it fails with
\* InvalidStateForRequest and changes nothing.
C16_JobResponseReceived ==
    last.op = "job_response_received"
    => IF /\ prev.kind \in {"Active", "Completed"}
          /\ last.node \in prev.active.active_requests
       THEN /\ last.res = "Ok"
            /\ consensus.kind = prev.kind
            /\ consensus.active.active_requests
                   = prev.active.active_requests \ {last.node}
            /\ last.node \in DOMAIN consensus.active.responses
            /\ consensus.active.responses[last.node] = last.response
            /\ consensus.active.core = prev.active.core
            /\ consensus.active.selected_nodes = prev.active.selected_nodes
       ELSE last.res = "InvalidStateForRequest" /\ consensus = prev

\* A response arrived from a node whose request was in flight.
C16_Witness ==
    /\ last.op = "job_response_received"
    /\ last.res = "Ok"
    /\ last.node \in prev.active.active_requests
    /\ last.node \notin consensus.active.active_requests
    /\ consensus.active.responses[last.node] = last.response

\* C17: activate() succeeds exactly in Established and in Active; on success
\* the consensus is Active with selected, in_flight and responses empty and
\* the core it had before the call; in Establishing, Completed and
\* Unreachable it fails with InvalidStateForRequest and changes nothing.
C17_Activate ==
    last.op = "activate"
    => IF prev.kind \in {"Established", "Active"}
       THEN /\ last.res = "Ok"
            /\ consensus.kind = "Active"
            /\ consensus.active.core = CoreOf(prev)
            /\ consensus.active.selected_nodes = {}
            /\ consensus.active.active_requests = {}
            /\ DOMAIN consensus.active.responses = {}
       ELSE last.res = "InvalidStateForRequest" /\ consensus = prev

\* An Active consensus with work under way was activated again.
C17_Witness ==
    /\ last.op = "activate"
    /\ last.res = "Ok"
    /\ prev.kind = "Active"
    /\ prev.active.active_requests # {}
    /\ DOMAIN prev.active.responses # {}
    /\ consensus.active.selected_nodes = {}

-----------------------------------------------------------------------------
\* Claims about the connection registry (cluster.rs).

\* The connection the last registry call was given.
GivenConnection == Connection(reg_last.node_id, reg_last.is_inbound, reg_last.link)

\* The registry of the node the last registry call was made at, after it.
RegistryAfter == connections[reg_last.at]

\* The lower id initiates: an inbound connection from a higher id, or an
\* outbound one to a lower id, does not displace a stored connection.
LosesTieBreak(self_node_id, connection) ==
    \/ self_node_id < connection.node_id /\ connection.is_inbound
    \/ self_node_id > connection.node_id /\ ~connection.is_inbound

\* C18: insert(conn) stores conn and returns true when no connection to its
\* peer is stored; when one is stored it returns false and changes nothing if
\* (self < peer and conn is inbound) or (self > peer and conn is outbound),
\* and otherwise puts conn in the place of the stored one and returns true.
\* Every registry holds at most one connection per peer id.
C18_Insert ==
    /\ reg_last.op = "insert" =>
        IF ~ContainsKey(reg_prev, reg_last.node_id)
        THEN reg_last.res /\ RegistryAfter = reg_prev \cup {GivenConnection}
        ELSE IF LosesTieBreak(reg_last.at, GivenConnection)
        THEN ~reg_last.res /\ RegistryAfter = reg_prev
        ELSE /\ reg_last.res
             /\ RegistryAfter =
                    (reg_prev \ {Get(reg_prev, reg_last.node_id)}) \cup {GivenConnection}
    /\ \A n \in NodeId : \A c, d \in connections[n] : c.node_id = d.node_id => c = d

\* An insert has replaced a stored connection.
C18_Witness ==
    /\ reg_last.op = "insert"
    /\ ContainsKey(reg_prev, reg_last.node_id)
    /\ reg_last.res
    /\ GivenConnection \in RegistryAfter
    /\ Get(reg_prev, reg_last.node_id) \notin RegistryAfter

\* The links dialed from a to b.
Dialed(a, b) == {l \in dialed : l.from = a /\ l.to = b}

\* a and b have dialed each other, once each.
CrossDialed(a, b) == Cardinality(Dialed(a, b)) = 1 /\ Cardinality(Dialed(b, a)) = 1

\* Every connection between a and b has been presented to the registries and
\* no read loop on one of them is about to fail.
Settled(a, b) ==
    LET between == Dialed(a, b) \cup Dialed(b, a) IN
    /\ \A r \in results : r.conn.link \notin between
    /\ \A r \in readers : r.conn.link \in between => ~PeerClosed(r)

\* C19: when a and b with a < b have dialed each other and both handshakes
\* have succeeded, then in whatever order the connections were presented to
\* the two registries, in the end both registries hold the connection dialed
\* by a (outbound at a, inbound at b) and neither holds the one dialed by b.
C19_CrossDialConvergence ==
    \A a, b \in NodeId :
        (a < b /\ CrossDialed(a, b) /\ Settled(a, b)) =>
            \A l \in Dialed(a, b) :
                /\ {c \in connections[a] : c.node_id = b} = {Connection(b, FALSE, l)}
                /\ {c \in connections[b] : c.node_id = a} = {Connection(a, TRUE, l)}

\* A cross-dial has settled, the connection dialed by the higher id having
\* been the first one stored at the lower id.
C19_Witness ==
    \E a, b \in NodeId :
        /\ a < b /\ CrossDialed(a, b) /\ Settled(a, b)
        /\ \E la \in Dialed(a, b), lb \in Dialed(b, a) :
            /\ lb.id < la.id
            /\ reg_last = RegistryCall("insert", a, b, FALSE, la, TRUE)
            /\ reg_prev = {Connection(b, TRUE, lb)}

\* C20: remove(peer, direction) removes the stored connection to peer when
\* one is stored and its direction is the given one; when the stored
\* connection has the other direction, or none is stored, the registry is
\* unchanged.
C20_Remove ==
    reg_last.op = "remove" =>
        IF /\ ContainsKey(reg_prev, reg_last.node_id)
           /\ Get(reg_prev, reg_last.node_id).is_inbound = reg_last.is_inbound
        THEN RegistryAfter = reg_prev \ {Get(reg_prev, reg_last.node_id)}
        ELSE RegistryAfter = reg_prev

\* A remove found a connection of the other direction and left it stored.
C20_Witness ==
    /\ reg_last.op = "remove"
    /\ ContainsKey(reg_prev, reg_last.node_id)
    /\ Get(reg_prev, reg_last.node_id).is_inbound # reg_last.is_inbound
    /\ RegistryAfter = reg_prev

\* C29: a read failure on a connection that is no longer the one stored for
\* its peer, a later connection having replaced it, never removes the
\* replacement: a read failure removes a registry entry only when the failing
\* connection is the stored one.
C29_StaleReadFailureKeepsReplacement ==
    (reg_last.op = "remove" /\ RegistryAfter # reg_prev) => GivenConnection \in reg_prev

\* C30: whenever is_established() is true (Established or Active), at least
\* threshold+1 nodes are in confirmed.
C30_EstablishedHasQuorum ==
    Consensus_is_established(consensus) =>
        Cardinality(CoreOf(consensus).confirmed_nodes) >= CoreOf(consensus).threshold + 1

\* C22: a maintenance tick removes every registered connection silent for
\* more than 60 s and delivers on_session_timeout(peer) to every registered
\* session; it sends a KeepAlive on every connection silent for more than 30 s
\* and at most 60 s and keeps it; it sends nothing on a connection silent for
\* at most 30 s and keeps it.  Handling a received message sets the silence of
\* its connection to zero.
C22_KeepAlive ==
    [][ /\ tick_last' # tick_last =>
            LET n == tick_last'.at IN
            \A c \in connections[n] :
                LET D == last_message_time[End(n, c.link)] IN
                /\ D > DeadSeconds =>
                    /\ c \notin connections'[n]
                    /\ \A s \in DOMAIN encryption_sessions[n] :
                           <<s, c.node_id>> \in tick_last'.timeouts
                /\ (IdleSeconds < D /\ D <= DeadSeconds) =>
                    c \in tick_last'.keepalives /\ c \in connections'[n]
                /\ D <= IdleSeconds =>
                    c \notin tick_last'.keepalives /\ c \in connections'[n]
        /\ msg_last' # msg_last =>
            LET e == End(msg_last'.at, msg_last'.link) IN
            e \in DOMAIN last_message_time' => last_message_time'[e] = 0
      ]_vars

\* A tick has found a dead and an idle connection at a node with a session:
\* it removed the one, notified the session, and sent a KeepAlive on the other.
C22_Witness ==
    /\ tick_last.timeouts # {}
    /\ tick_last.keepalives # {}
    /\ tick_last.keepalives \subseteq connections[tick_last.at]
    /\ \A t \in tick_last.timeouts : ~ContainsKey(connections[tick_last.at], t[2])

\* C23: whenever a connection to peer p is removed from the registry of node
\* n by a failed read of its read loop, the sessions registered at n are
\* eventually told of the loss by on_session_timeout(p).
C23_ReadErrorNotifiesSessions ==
    \A n \in NodeId, p \in NodeId :
        (<<n, p>> \in unnotified) ~> (<<n, p>> \notin unnotified)

\* The end at the peer of the link the last message was read from.
ReplyEnd(m) ==
    End(IF m.link.from = m.at THEN m.link.to ELSE m.link.from, m.link)

\* C24: when the handling of an encryption message for session s ends in an
\* error, s is no longer in the registry of encryption sessions and exactly
\* one SessionError with s and the error's name is written to the connection
\* the message came on, and nothing to any other; when it ends in Ok, no
\* session is removed and nothing is written.
C24_ErrorRemovesSessionAndReplies ==
    [][ (msg_last' # msg_last /\ msg_last'.kind \in EncryptionMessageKind) =>
            LET n == msg_last'.at
                s == msg_last'.session
                here == End(n, msg_last'.link)
                others == (DOMAIN wire \cup DOMAIN wire') \ {ReplyEnd(msg_last'), here}
            IN
            /\ \A m \in NodeId \ {n} : encryption_sessions'[m] = encryption_sessions[m]
            /\ \A e \in others : Unread(wire', e) = Unread(wire, e)
            /\ Len(Unread(wire', here)) <= Len(Unread(wire, here))
            /\ IF msg_last'.res # "Ok"
               THEN /\ s \notin DOMAIN encryption_sessions'[n]
                    /\ msg_last'.replies = <<SessionError(s, msg_last'.res)>>
                    /\ Unread(wire', ReplyEnd(msg_last')) =
                           Unread(wire, ReplyEnd(msg_last')) \o msg_last'.replies
               ELSE /\ DOMAIN encryption_sessions[n] \subseteq DOMAIN encryption_sessions'[n]
                    /\ msg_last'.replies = <<>>
                    /\ Unread(wire', ReplyEnd(msg_last')) = Unread(wire, ReplyEnd(msg_last'))
      ]_vars

\* A handler of a registered session has failed: the session is gone and the
\* SessionError is on its way to the sender.
C24_Witness ==
    /\ msg_last.kind = "ConfirmInitialization"
    /\ msg_last.res = "InvalidStateForRequest"
    /\ msg_last.session \notin DOMAIN encryption_sessions[msg_last.at]
    /\ Unread(wire, ReplyEnd(msg_last)) =
           <<SessionError(msg_last.session, "InvalidStateForRequest")>>

\* C26: the key generation timer is armed by the KeysDissemination delivery
\* that brought the session into KeyCheck and by no other.
C26_TimerOncePerTransition ==
    msg_last.kind = "KeysDissemination" => (msg_last.scheduled <=> msg_last.entered)

\* C27: an InitializeSession for a session id that is registered fails with
\* DuplicateSessionId and leaves the registered session as it was.
C27_DuplicateInitializeKeepsSession ==
    [][ ( /\ msg_last' # msg_last
          /\ msg_last'.kind = "InitializeSession"
          /\ msg_last'.session \in DOMAIN encryption_sessions[msg_last'.at] ) =>
            /\ msg_last'.res = "DuplicateSessionId"
            /\ encryption_sessions'[msg_last'.at] = encryption_sessions[msg_last'.at]
            /\ arcs'[msg_last'.at] = arcs[msg_last'.at]
      ]_vars

\* C28: the exchange of SessionError messages ends: from some time on no
\* SessionError is on its way between any two nodes.
C28_SessionErrorExchangeTerminates == <>[](wire = EmptyMap)

\* C25: a broadcast of a ClusterView returns NodeDisconnected when a node of
\* its frozen set other than self has no connection in the registry, and
\* otherwise Ok, having dispatched to a connection of every node of the set
\* but self; a send returns NodeDisconnected iff no connection to `to` is
\* registered, and otherwise dispatches to it; no step changes the node set
\* of a session's view.
C25_ViewBroadcastSend ==
    [][ /\ view_last' # view_last =>
            LET n == view_last'.at
                peers == encryption_sessions[n][view_last'.session].nodes \ {n}
            IN
            /\ view_last'.res \in {"Ok", "NodeDisconnected"}
            /\ view_last'.sent \subseteq connections[n]
            /\ view_last'.op = "broadcast" =>
                   IF \E p \in peers : ~ContainsKey(connections[n], p)
                   THEN view_last'.res = "NodeDisconnected"
                   ELSE /\ view_last'.res = "Ok"
                        /\ {c.node_id : c \in view_last'.sent} = peers
            /\ view_last'.op = "send" =>
                   IF ContainsKey(connections[n], view_last'.to)
                   THEN /\ view_last'.res = "Ok"
                        /\ view_last'.sent = {Get(connections[n], view_last'.to)}
                   ELSE view_last'.res = "NodeDisconnected" /\ view_last'.sent = {}
        /\ \A n \in NodeId :
               \A s \in DOMAIN encryption_sessions[n] \cap DOMAIN encryption_sessions'[n] :
                   encryption_sessions'[n][s].arc = encryption_sessions[n][s].arc =>
                       encryption_sessions'[n][s].nodes = encryption_sessions[n][s].nodes
      ]_vars

\* A broadcast has failed on a node of the frozen set that is no longer
\* connected, after it dispatched to a node that is.
C25_Witness ==
    /\ view_last.op = "broadcast"
    /\ view_last.res = "NodeDisconnected"
    /\ view_last.sent # {}
    /\ \E p \in encryption_sessions[view_last.at][view_last.session].nodes :
           p # view_last.at /\ ~ContainsKey(connections[view_last.at], p)

\* The registry of node n holds at most one connection to a peer.
AtMostOne(n) ==
    \A c \in connections[n], d \in connections[n] : c.node_id = d.node_id => c = d

\* C21: while the nodes are up and handshakes succeed, the registry of every
\* node comes to hold a connection to every other node, and it never holds
\* more than one to the same node.
C21_MeshFormation ==
    /\ \A n \in NodeId : \A p \in NodeId \ {n} : <>ContainsKey(connections[n], p)
    /\ [](\A n \in NodeId : AtMostOne(n))

\* The mesh is formed, two nodes having dialed each other.
C21_Witness ==
    /\ \A n \in NodeId : \A p \in NodeId \ {n} : ContainsKey(connections[n], p)
    /\ \E l \in dialed : \E k \in dialed : l.from = k.to /\ l.to = k.from
    /\ results = {}

=============================================================================
